---- MODULE Spec2Model ----
(***************************************************************************)
(* Compose resolution and orchestration (package config, package services) *)
(* and the TAR installer (package installer) of the e2e-testing harness.   *)
(*                                                                         *)
(* A path is the tuple of its segments; path.Join is concatenation.  The   *)
(* workspace is a set of directories and a partial map from file paths to  *)
(* bytes.  A Go error is a tuple, nil is the empty tuple.  A panic or a    *)
(* log.Fatal ends the process: no operation runs afterwards.               *)
(***************************************************************************)
EXTENDS Integers, Sequences, FiniteSets, TLC

VARIABLES proc, Op, opComposeBox, dirs, files, edits, call,
          deployLog, opsLog, lifecycle,
          ini, cfg, opRef, res

vars == <<proc, Op, opComposeBox, dirs, files, edits, call,
          deployLog, opsLog, lifecycle, ini, cfg, opRef, res>>

composeVars == <<proc, Op, opComposeBox, dirs, files, edits, call>>

installerVars == <<deployLog, opsLog, lifecycle>>

\* the callers that run InitConfig or GetComposeFile at the same time: where
\* each is in its call (ini, res), the OpConfig each has allocated (cfg) and
\* the one the pointer Op refers to (opRef)
concVars == <<ini, cfg, opRef, res>>

(***************************************************************************)
(* Bounds                                                                  *)
(***************************************************************************)
\* longest name list handed to an orchestration operation
MaxNames == 3

\* number of changes the tester makes to the workspace by hand
MaxEdits == 2

\* number of installer operations a scenario invokes
MaxOps == 3

(***************************************************************************)
(* Values                                                                  *)
(***************************************************************************)
Names == {"a", "es"}

Types == {"services", "stacks"}

ComposeFileName == "docker-compose.yml"

HomeDir == <<"home">>

NilErr == <<>>

Callers == {"c1", "c2"}

\* a caller that is not in a call of GetComposeFile
Idle ==
  [pc |-> "idle", arg |-> <<>>, bytes |-> <<>>, path |-> <<>>,
   err |-> NilErr, wrote |-> FALSE, content |-> <<>>]

NilOp == [nil |-> TRUE]

NilBox == [nil |-> TRUE]

\* the enumeration order of the files embedded in the binary
BoxList ==
  << <<"services", "es", "docker-compose.yml">>,
     <<"stacks", "a", "docker-compose.yml">>,
     <<"stacks", "es", "docker-compose.yml">> >>

TheBox == [nil |-> FALSE, paths |-> {BoxList[i] : i \in 1..Len(BoxList)}]

BoxBytes(boxedPath) == <<"boxed">> \o boxedPath

CustomBytes == <<"custom">>

NamesLists == UNION {[1..k -> Names] : k \in 0..MaxNames}

ServiceLists == UNION {[1..k -> Names] : k \in 0..(MaxNames - 1)}

Envs == {{}, {<<"stackVersion", "8.0.0">>}}

NoCall ==
  [op |-> "none", isStack |-> FALSE, names |-> <<>>, command |-> <<>>,
   path |-> <<>>, err |-> NilErr, panic |-> FALSE, resolved |-> <<>>,
   found |-> <<>>, wrote |-> <<>>, invocations |-> <<>>, calls |-> <<>>,
   env |-> {}, diskOk |-> TRUE, exists |-> FALSE,
   init |-> [userOk |-> TRUE, mkdirOk |-> TRUE, failAt |-> 0]]

(***************************************************************************)
(* The file system helpers of cli/internal                                 *)
(***************************************************************************)
Prefixes(p) == {SubSeq(p, 1, k) : k \in 1..Len(p)}

Dir(p) == SubSeq(p, 1, Len(p) - 1)

Exists(fs, p) == p \in DOMAIN fs.files \/ p \in fs.dirs

\* os.MkdirAll: the directory and all its parents
OsMkdirAll(fs, d, ok) ==
  IF ok THEN [fs EXCEPT !.dirs = @ \cup Prefixes(d)] ELSE fs

\* io.MkdirAll takes a file path and creates the directories above it
MkdirAll(fs, file, ok) == OsMkdirAll(fs, Dir(file), ok)

\* ioutil.WriteFile: needs the parent directory
WriteFile(fs, p, bytes, ok) ==
  IF ok /\ Dir(p) \in fs.dirs
    THEN [fs |-> [fs EXCEPT !.files =
                    [q \in DOMAIN fs.files \cup {p} |->
                       IF q = p THEN bytes ELSE fs.files[q]]],
          err |-> NilErr]
    ELSE [fs |-> fs, err |-> <<"write failed">> \o p]

(***************************************************************************)
(* package config                                                          *)
(***************************************************************************)
ServiceType(isStack) == IF isStack THEN "stacks" ELSE "services"

\* opComposeBox.Find
BoxFind(box, boxedPath) ==
  IF boxedPath \in box.paths
    THEN [bytes |-> BoxBytes(boxedPath), err |-> NilErr]
    ELSE [bytes |-> <<>>, err |-> <<"file does not exist">> \o boxedPath]

Panicked(fs) ==
  [path |-> <<>>, err |-> NilErr, panic |-> TRUE, fs |-> fs,
   found |-> <<>>, wrote |-> <<>>]

\* GetComposeFile without the look-up in the workspace: extracts on every call
GetComposeFileAlwaysExtract(op, box, fs, isStack, composeName, diskOk) ==
  LET serviceType == ServiceType(isStack)
      boxed == <<serviceType, composeName, ComposeFileName>>
  IN
  IF op = NilOp \/ box = NilBox THEN Panicked(fs)
  ELSE
  LET composeFilePath ==
        op.Workspace \o <<"compose", serviceType, composeName, ComposeFileName>>
      f == BoxFind(box, boxed)
      w == WriteFile(MkdirAll(fs, composeFilePath, diskOk),
                     composeFilePath, f.bytes, diskOk)
  IN
  IF f.err # NilErr
    THEN IF Exists(fs, composeFilePath)
           THEN [path |-> composeFilePath, err |-> NilErr, panic |-> FALSE,
                 fs |-> fs, found |-> <<boxed>>, wrote |-> <<>>]
           ELSE [path |-> <<>>, err |-> f.err, panic |-> FALSE, fs |-> fs,
                 found |-> <<boxed>>, wrote |-> <<>>]
    ELSE [path |-> composeFilePath, err |-> w.err, panic |-> FALSE,
          fs |-> w.fs, found |-> <<boxed>>,
          wrote |-> IF w.err = NilErr THEN <<composeFilePath>> ELSE <<>>]

\* GetComposeFile that prefers the embedded file of a name to the one in the
\* workspace when the workspace file is not the embedded one
GetComposeFilePreferBox(op, box, fs, isStack, composeName, diskOk) ==
  LET serviceType == ServiceType(isStack)
      boxed == <<serviceType, composeName, ComposeFileName>>
  IN
  IF op = NilOp THEN Panicked(fs)
  ELSE
  LET composeFilePath ==
        op.Workspace \o <<"compose", serviceType, composeName, ComposeFileName>>
      stale == /\ box # NilBox
               /\ boxed \in box.paths
               /\ composeFilePath \in DOMAIN fs.files
               /\ fs.files[composeFilePath] # BoxBytes(boxed)
  IN
  IF Exists(fs, composeFilePath) /\ ~stale
    THEN [path |-> composeFilePath, err |-> NilErr, panic |-> FALSE,
          fs |-> fs, found |-> <<>>, wrote |-> <<>>]
  ELSE IF box = NilBox THEN Panicked(fs)
  ELSE
  LET f == BoxFind(box, boxed) IN
  IF f.err # NilErr
    THEN [path |-> <<>>, err |-> f.err, panic |-> FALSE, fs |-> fs,
          found |-> <<boxed>>, wrote |-> <<>>]
  ELSE
  LET w == WriteFile(MkdirAll(fs, composeFilePath, diskOk),
                     composeFilePath, f.bytes, diskOk)
  IN
  [path |-> composeFilePath, err |-> w.err, panic |-> FALSE, fs |-> w.fs,
   found |-> <<boxed>>,
   wrote |-> IF w.err = NilErr THEN <<composeFilePath>> ELSE <<>>]

\* GetComposeFile that creates the directory before it looks for the embedded file
GetComposeFileMkdirFirst(op, box, fs, isStack, composeName, diskOk) ==
  LET serviceType == ServiceType(isStack)
      boxed == <<serviceType, composeName, ComposeFileName>>
  IN
  IF op = NilOp THEN Panicked(fs)
  ELSE
  LET composeFilePath ==
        op.Workspace \o <<"compose", serviceType, composeName, ComposeFileName>>
  IN
  IF Exists(fs, composeFilePath)
    THEN [path |-> composeFilePath, err |-> NilErr, panic |-> FALSE,
          fs |-> fs, found |-> <<>>, wrote |-> <<>>]
  ELSE IF box = NilBox THEN Panicked(fs)
  ELSE
  LET made == MkdirAll(fs, composeFilePath, diskOk)
      f == BoxFind(box, boxed)
  IN
  IF f.err # NilErr
    THEN [path |-> <<>>, err |-> f.err, panic |-> FALSE, fs |-> made,
          found |-> <<boxed>>, wrote |-> <<>>]
  ELSE
  LET w == WriteFile(made, composeFilePath, f.bytes, diskOk) IN
  [path |-> composeFilePath, err |-> w.err, panic |-> FALSE, fs |-> w.fs,
   found |-> <<boxed>>,
   wrote |-> IF w.err = NilErr THEN <<composeFilePath>> ELSE <<>>]

\* GetComposeFile that takes the path of the registry for valid without a look
\* at the workspace
GetComposeFileCached(op, box, fs, isStack, composeName, diskOk) ==
  LET serviceType == ServiceType(isStack)
      boxed == <<serviceType, composeName, ComposeFileName>>
  IN
  IF op = NilOp THEN Panicked(fs)
  ELSE
  LET composeFilePath ==
        op.Workspace \o <<"compose", serviceType, composeName, ComposeFileName>>
      m == IF isStack THEN op.Stacks ELSE op.Services
      cached == composeName \in DOMAIN m /\ m[composeName].Path = composeFilePath
  IN
  IF cached \/ Exists(fs, composeFilePath)
    THEN [path |-> composeFilePath, err |-> NilErr, panic |-> FALSE,
          fs |-> fs, found |-> <<>>, wrote |-> <<>>]
  ELSE IF box = NilBox THEN Panicked(fs)
  ELSE
  LET f == BoxFind(box, boxed) IN
  IF f.err # NilErr
    THEN [path |-> <<>>, err |-> f.err, panic |-> FALSE, fs |-> fs,
          found |-> <<boxed>>, wrote |-> <<>>]
  ELSE
  LET w == WriteFile(MkdirAll(fs, composeFilePath, diskOk),
                     composeFilePath, f.bytes, diskOk)
  IN
  [path |-> composeFilePath, err |-> w.err, panic |-> FALSE, fs |-> w.fs,
   found |-> <<boxed>>,
   wrote |-> IF w.err = NilErr THEN <<composeFilePath>> ELSE <<>>]

GetComposeFile(op, box, fs, isStack, composeName, diskOk) ==
  LET serviceType == ServiceType(isStack) IN
  IF op = NilOp THEN Panicked(fs)
  ELSE
  LET composeFilePath ==
        op.Workspace \o <<"compose", serviceType, composeName, ComposeFileName>>
  IN
  IF Exists(fs, composeFilePath)
    THEN [path |-> composeFilePath, err |-> NilErr, panic |-> FALSE,
          fs |-> fs, found |-> <<>>, wrote |-> <<>>]
  ELSE IF box = NilBox THEN Panicked(fs)
  ELSE
  LET boxed == <<serviceType, composeName, ComposeFileName>>
      f == BoxFind(box, boxed)
  IN
  IF f.err # NilErr
    THEN [path |-> <<>>, err |-> f.err, panic |-> FALSE, fs |-> fs,
          found |-> <<boxed>>, wrote |-> <<>>]
  ELSE
  LET w == WriteFile(MkdirAll(fs, composeFilePath, diskOk),
                     composeFilePath, f.bytes, diskOk)
  IN
  [path |-> composeFilePath, err |-> w.err, panic |-> FALSE, fs |-> w.fs,
   found |-> <<boxed>>,
   wrote |-> IF w.err = NilErr THEN <<composeFilePath>> ELSE <<>>]

\* the first failAt-1 embedded files are visited before the walk fails;
\* failAt = 0 is a walk that visits them all
BoxWalk(failAt) ==
  IF failAt = 0 THEN BoxList ELSE SubSeq(BoxList, 1, failAt - 1)

RECURSIVE packVisit(_, _)
packVisit(op, visited) ==
  IF visited = <<>> THEN op
  ELSE
    LET boxedPath == Head(visited)
        composeType == boxedPath[1]
        composeName == boxedPath[2]
        entry == [Name |-> composeName, Path |-> boxedPath]
        put(m) == [n \in DOMAIN m \cup {composeName} |->
                     IF n = composeName THEN entry ELSE m[n]]
        op1 == IF composeType = "stacks"
                 THEN [op EXCEPT !.Stacks = put(@)]
               ELSE IF composeType = "services"
                 THEN [op EXCEPT !.Services = put(@)]
               ELSE op
    IN packVisit(op1, Tail(visited))

packComposeFiles(op, failAt) ==
  [op |-> packVisit(op, BoxWalk(failAt)),
   box |-> IF failAt # 0 THEN NilBox ELSE TheBox]

\* readFilesFromFileSystem that keeps an entry the walk has registered
readFilesFromFileSystemKeep(op, fs, serviceType) ==
  LET basePath == op.Workspace \o <<"compose", serviceType>>
      found == {name \in Names :
                  /\ (basePath \o <<name>>) \in fs.dirs
                  /\ Exists(fs, basePath \o <<name, ComposeFileName>>)}
      entry(name) == [Name |-> name,
                      Path |-> basePath \o <<name, ComposeFileName>>]
      merge(m) == [n \in DOMAIN m \cup found |->
                     IF n \in DOMAIN m THEN m[n] ELSE entry(n)]
  IN
  IF basePath \notin fs.dirs THEN op
  ELSE IF serviceType = "services" THEN [op EXCEPT !.Services = merge(@)]
  ELSE IF serviceType = "stacks" THEN [op EXCEPT !.Stacks = merge(@)]
  ELSE op

readFilesFromFileSystem(op, fs, serviceType) ==
  LET basePath == op.Workspace \o <<"compose", serviceType>>
      found == {name \in Names :
                  /\ (basePath \o <<name>>) \in fs.dirs
                  /\ Exists(fs, basePath \o <<name, ComposeFileName>>)}
      entry(name) == [Name |-> name,
                      Path |-> basePath \o <<name, ComposeFileName>>]
      merge(m) == [n \in DOMAIN m \cup found |->
                     IF n \in found THEN entry(n) ELSE m[n]]
  IN
  IF basePath \notin fs.dirs THEN op
  ELSE IF serviceType = "services" THEN [op EXCEPT !.Services = merge(@)]
  ELSE IF serviceType = "stacks" THEN [op EXCEPT !.Stacks = merge(@)]
  ELSE op

EmptyMap == [n \in {} |-> NilOp]

\* checkConfigDirs: log.Fatal when a directory cannot be created
checkConfigDirs(fs, workspace, mkdirOk) ==
  LET servicesPath == workspace \o <<"compose", "services">>
      stacksPath == workspace \o <<"compose", "stacks">>
      need(p) == ~Exists(fs, p)
      fs1 == IF need(servicesPath) THEN OsMkdirAll(fs, servicesPath, mkdirOk)
             ELSE fs
      fatal1 == need(servicesPath) /\ ~mkdirOk
      fs2 == IF need(stacksPath) THEN OsMkdirAll(fs1, stacksPath, mkdirOk)
             ELSE fs1
      fatal2 == need(stacksPath) /\ ~mkdirOk
  IN
  IF fatal1 THEN [fs |-> fs1, fatal |-> TRUE]
  ELSE [fs |-> fs2, fatal |-> fatal2]

\* newConfig: the values of proc, Op, opComposeBox and the file system after it
newConfig(op, box, fs, workspace, mkdirOk, failAt) ==
  IF op # NilOp
    THEN [proc |-> "running", Op |-> op, box |-> box, fs |-> fs]
  ELSE
  LET c == checkConfigDirs(fs, workspace, mkdirOk) IN
  IF c.fatal
    THEN [proc |-> "exited", Op |-> op, box |-> box, fs |-> c.fs]
  ELSE
  LET opConfig == [Services |-> EmptyMap, Stacks |-> EmptyMap,
                   Workspace |-> workspace]
      p == packComposeFiles(opConfig, failAt)
  IN
  IF p.box = NilBox
    THEN [proc |-> "running", Op |-> p.op, box |-> box, fs |-> c.fs]
  ELSE
  LET op1 == readFilesFromFileSystem(p.op, c.fs, "services")
      op2 == readFilesFromFileSystem(op1, c.fs, "stacks")
  IN [proc |-> "running", Op |-> op2, box |-> p.box, fs |-> c.fs]

FS == [dirs |-> dirs, files |-> files]

\* InitConfig: user.Current may fail, and its nil result is then dereferenced
\* InitConfig that populates the registry on every call
initConfigAgain(op, box, fs, userOk, mkdirOk, failAt) ==
  IF ~userOk
    THEN [proc |-> "panicked", Op |-> op, box |-> box, fs |-> fs]
  ELSE newConfig(NilOp, box, fs, HomeDir \o <<".op">>, mkdirOk, failAt)

initConfig(op, box, fs, userOk, mkdirOk, failAt) ==
  IF op # NilOp
    THEN [proc |-> "running", Op |-> op, box |-> box, fs |-> fs]
  ELSE IF ~userOk
    THEN [proc |-> "panicked", Op |-> op, box |-> box, fs |-> fs]
  ELSE newConfig(op, box, fs, HomeDir \o <<".op">>, mkdirOk, failAt)

InitConfig(userOk, mkdirOk, failAt) ==
  /\ proc = "running"
  /\ call = NoCall
  /\ LET r == initConfig(Op, opComposeBox, FS, userOk, mkdirOk, failAt)
     IN /\ proc' = r.proc
        /\ Op' = r.Op
        /\ opComposeBox' = r.box
        /\ dirs' = r.fs.dirs
        /\ files' = r.fs.files
        /\ call' = [NoCall EXCEPT !.op = "InitConfig",
                                  !.panic = (r.proc # "running"),
                                  !.init = [userOk |-> userOk,
                                            mkdirOk |-> mkdirOk,
                                            failAt |-> failAt]]
  /\ UNCHANGED <<edits, installerVars, concVars>>

\* GetComposeFile that enters the file it extracted into the registry
GetComposeFileCallRegister(isStack, composeName, diskOk) ==
  /\ proc = "running"
  /\ call = NoCall
  /\ LET r == GetComposeFile(Op, opComposeBox, FS, isStack, composeName, diskOk)
         entry == [Name |-> composeName, Path |-> r.path]
         put(m) == [n \in DOMAIN m \cup {composeName} |->
                      IF n = composeName THEN entry ELSE m[n]]
     IN /\ proc' = IF r.panic THEN "panicked" ELSE "running"
        /\ dirs' = r.fs.dirs
        /\ files' = r.fs.files
        /\ Op' = IF r.wrote = <<>> THEN Op
                 ELSE IF isStack THEN [Op EXCEPT !.Stacks = put(@)]
                 ELSE [Op EXCEPT !.Services = put(@)]
        /\ call' = [NoCall EXCEPT !.op = "GetComposeFile",
                                  !.isStack = isStack,
                                  !.names = <<composeName>>,
                                  !.path = r.path, !.err = r.err,
                                  !.panic = r.panic,
                                  !.resolved = <<<<ServiceType(isStack), composeName>>>>,
                                  !.found = r.found, !.wrote = r.wrote,
                                  !.diskOk = diskOk]
  /\ UNCHANGED <<opComposeBox, edits, installerVars, concVars>>

GetComposeFileCall(isStack, composeName, diskOk) ==
  /\ proc = "running"
  /\ call = NoCall
  /\ LET r == GetComposeFile(Op, opComposeBox, FS, isStack, composeName, diskOk)
     IN /\ proc' = IF r.panic THEN "panicked" ELSE "running"
        /\ dirs' = r.fs.dirs
        /\ files' = r.fs.files
        /\ call' = [NoCall EXCEPT !.op = "GetComposeFile",
                                  !.isStack = isStack,
                                  !.names = <<composeName>>,
                                  !.path = r.path, !.err = r.err,
                                  !.panic = r.panic,
                                  !.resolved = <<<<ServiceType(isStack), composeName>>>>,
                                  !.found = r.found, !.wrote = r.wrote,
                                  !.diskOk = diskOk]
  /\ UNCHANGED <<Op, opComposeBox, edits, installerVars, concVars>>

\* OpConfig.GetServiceConfig through the package function: Op is dereferenced
getServiceConfig(op, service) ==
  IF op = NilOp THEN [srv |-> <<>>, exists |-> FALSE, panic |-> TRUE]
  ELSE IF service \in DOMAIN op.Services
    THEN [srv |-> op.Services[service].Path, exists |-> TRUE, panic |-> FALSE]
    ELSE [srv |-> <<>>, exists |-> FALSE, panic |-> FALSE]

GetServiceConfig(service) ==
  /\ proc = "running"
  /\ call = NoCall
  /\ LET r == getServiceConfig(Op, service)
     IN /\ proc' = IF r.panic THEN "panicked" ELSE "running"
        /\ call' = [NoCall EXCEPT !.op = "GetServiceConfig",
                                  !.names = <<service>>,
                                  !.path = r.srv, !.exists = r.exists,
                                  !.panic = r.panic]
  /\ UNCHANGED <<Op, opComposeBox, dirs, files, edits, installerVars, concVars>>

(***************************************************************************)
(* package services                                                        *)
(***************************************************************************)
\* the composition engine: one invocation of docker-compose over the files
Invocation(composeFilePaths, identifier, command, env) ==
  [files |-> composeFilePaths, identifier |-> identifier,
   command |-> command, env |-> env]

EngineErr == <<"exit status 1">>

\* executeCompose: the flag handed to GetComposeFile for the i-th name (from 1)
\* every name takes the flag of the call
executeComposeIsStackAll(i, isStack) == isStack

executeComposeIsStack(i, isStack) == i = 1 /\ isStack

\* StopCompose: the flag handed to GetComposeFile for the i-th name (from 1)
\* the flag of the call, without the rule for a one-character first name
StopComposeIsStackPlain(i, isStack, composeName) == isStack

StopComposeIsStack(i, isStack, composeName) ==
  IF i = 1 /\ ~isStack /\ Len(composeName) = 1 THEN TRUE ELSE isStack

LoopStart(fs) ==
  [paths |-> <<>>, fs |-> fs, resolved |-> <<>>, found |-> <<>>,
   wrote |-> <<>>, err |-> NilErr, panic |-> FALSE]

\* the loop over composeNames of executeCompose and StopCompose: flags[i] is
\* the flag of the i-th name; the loop returns at the first error
RECURSIVE ResolveLoop(_, _, _, _, _, _, _)
ResolveLoop(op, box, flags, composeNames, diskOk, i, st) ==
  IF i > Len(composeNames) THEN st
  ELSE
    LET r == GetComposeFile(op, box, st.fs, flags[i], composeNames[i], diskOk)
        st1 == [st EXCEPT
                  !.fs = r.fs,
                  !.resolved = Append(@, <<ServiceType(flags[i]), composeNames[i]>>),
                  !.found = @ \o r.found,
                  !.wrote = @ \o r.wrote]
    IN
    IF r.panic THEN [st1 EXCEPT !.panic = TRUE]
    ELSE IF r.err # NilErr
      THEN [st1 EXCEPT !.err = <<"Could not get compose file", r.path, r.err>>]
    ELSE ResolveLoop(op, box, flags, composeNames, diskOk, i + 1,
                     [st1 EXCEPT !.paths = Append(@, r.path)])

\* the part of executeCompose and StopCompose after the loop: the call of the
\* engine and the wrapping of its error; composeNames[0] panics on an empty list
\* the engine is called whether or not the names resolved
InvokeEngineAnyway(st, composeNames, command, env, engineOk, message) ==
  IF st.panic THEN [st EXCEPT !.paths = <<>>] @@ [invocations |-> <<>>]
  ELSE IF composeNames = <<>>
    THEN [st EXCEPT !.panic = TRUE, !.paths = <<>>] @@ [invocations |-> <<>>]
  ELSE
    [st EXCEPT !.err = IF st.err # NilErr THEN st.err
                       ELSE IF engineOk THEN NilErr
                       ELSE <<message, st.paths, EngineErr>>,
               !.paths = <<>>]
      @@ [invocations |-> <<Invocation(st.paths, composeNames[1], command, env)>>]

InvokeEngine(st, composeNames, command, env, engineOk, message) ==
  IF st.panic \/ st.err # NilErr THEN [st EXCEPT !.paths = <<>>] @@ [invocations |-> <<>>]
  ELSE IF composeNames = <<>>
    THEN [st EXCEPT !.panic = TRUE, !.paths = <<>>] @@ [invocations |-> <<>>]
  ELSE
    [st EXCEPT !.err = IF engineOk THEN NilErr
                       ELSE <<message, st.paths, EngineErr>>,
               !.paths = <<>>]
      @@ [invocations |-> <<Invocation(st.paths, composeNames[1], command, env)>>]

executeCompose(op, box, fs, isStack, composeNames, command, env, diskOk, engineOk) ==
  LET flags == [i \in 1..Len(composeNames) |-> executeComposeIsStack(i, isStack)]
      st == ResolveLoop(op, box, flags, composeNames, diskOk, 1, LoopStart(fs))
  IN InvokeEngine(st, composeNames, command, env, engineOk,
                  "Could not run compose file")

\* StopCompose whose rule for the first name asks for a list of one name
stopComposeSingle(op, box, fs, isStack, composeNames, diskOk, engineOk) ==
  LET flags == [i \in 1..Len(composeNames) |->
                  IF i = 1 /\ ~isStack /\ Len(composeNames) = 1
                       /\ Len(composeNames[i]) = 1
                    THEN TRUE ELSE isStack]
      st == ResolveLoop(op, box, flags, composeNames, diskOk, 1, LoopStart(fs))
  IN InvokeEngine(st, composeNames, <<"down">>, {}, engineOk,
                  "Could not stop compose file")

stopCompose(op, box, fs, isStack, composeNames, diskOk, engineOk) ==
  LET flags == [i \in 1..Len(composeNames) |->
                  StopComposeIsStack(i, isStack, composeNames[i])]
      st == ResolveLoop(op, box, flags, composeNames, diskOk, 1, LoopStart(fs))
  IN InvokeEngine(st, composeNames, <<"down">>, {}, engineOk,
                  "Could not stop compose file")

\* the loop of RemoveServicesFromCompose over composeNames, from the k-th
\* name on; the failAt-th invocation of the engine fails (0: none does)
\* the loop without the return at the first error
RECURSIVE removeLoopOn(_, _, _, _, _, _, _, _)
removeLoopOn(op, box, newComposeNames, composeNames, diskOk, failAt, k, st) ==
  IF k > Len(composeNames) THEN st
  ELSE
    LET command == <<"rm", "-fvs", composeNames[k]>>
        r == executeCompose(op, box, st.fs, TRUE, newComposeNames, command,
                            {}, diskOk, Len(st.invocations) + 1 # failAt)
        st1 == [st EXCEPT !.fs = r.fs,
                          !.resolved = @ \o r.resolved,
                          !.found = @ \o r.found,
                          !.wrote = @ \o r.wrote,
                          !.invocations = @ \o r.invocations,
                          !.calls = Append(@, [command |-> command, err |-> r.err]),
                          !.err = r.err,
                          !.panic = r.panic]
    IN
    IF r.panic THEN st1
    ELSE removeLoopOn(op, box, newComposeNames, composeNames, diskOk, failAt,
                    k + 1, st1)

RECURSIVE removeLoop(_, _, _, _, _, _, _, _)
removeLoop(op, box, newComposeNames, composeNames, diskOk, failAt, k, st) ==
  IF k > Len(composeNames) THEN st
  ELSE
    LET command == <<"rm", "-fvs", composeNames[k]>>
        r == executeCompose(op, box, st.fs, TRUE, newComposeNames, command,
                            {}, diskOk, Len(st.invocations) + 1 # failAt)
        st1 == [st EXCEPT !.fs = r.fs,
                          !.resolved = @ \o r.resolved,
                          !.found = @ \o r.found,
                          !.wrote = @ \o r.wrote,
                          !.invocations = @ \o r.invocations,
                          !.calls = Append(@, [command |-> command, err |-> r.err]),
                          !.err = r.err,
                          !.panic = r.panic]
    IN
    IF r.panic \/ r.err # NilErr THEN st1
    ELSE removeLoop(op, box, newComposeNames, composeNames, diskOk, failAt,
                    k + 1, st1)

removeServicesFromCompose(op, box, fs, stack, composeNames, diskOk, failAt) ==
  LET newComposeNames == <<stack>> \o composeNames
  IN removeLoop(op, box, newComposeNames, composeNames, diskOk, failAt, 1,
                LoopStart(fs) @@ [invocations |-> <<>>, calls |-> <<>>])

\* the state after an orchestration operation that returned r
Returned(r, opName, isStack, composeNames, command, env, diskOk) ==
  /\ proc' = IF r.panic THEN "panicked" ELSE "running"
  /\ dirs' = r.fs.dirs
  /\ files' = r.fs.files
  /\ call' = [NoCall EXCEPT !.op = opName, !.isStack = isStack,
                            !.names = composeNames, !.command = command,
                            !.err = r.err, !.panic = r.panic,
                            !.resolved = r.resolved, !.found = r.found,
                            !.wrote = r.wrote, !.invocations = r.invocations,
                            !.calls = IF "calls" \in DOMAIN r THEN r.calls
                                      ELSE <<>>,
                            !.env = env, !.diskOk = diskOk]
  /\ UNCHANGED <<Op, opComposeBox, edits, installerVars, concVars>>

RunCompose(isStack, composeNames, env, diskOk, engineOk) ==
  /\ proc = "running"
  /\ call = NoCall
  /\ Returned(executeCompose(Op, opComposeBox, FS, isStack, composeNames,
                             <<"up", "-d">>, env, diskOk, engineOk),
              "RunCompose", isStack, composeNames, <<"up", "-d">>, env, diskOk)

StopCompose(isStack, composeNames, diskOk, engineOk) ==
  /\ proc = "running"
  /\ call = NoCall
  /\ Returned(stopCompose(Op, opComposeBox, FS, isStack, composeNames,
                          diskOk, engineOk),
              "StopCompose", isStack, composeNames, <<"down">>, {}, diskOk)

AddServicesToCompose(stack, composeNames, env, diskOk, engineOk) ==
  /\ proc = "running"
  /\ call = NoCall
  /\ LET newComposeNames == <<stack>> \o composeNames
     IN Returned(executeCompose(Op, opComposeBox, FS, TRUE, newComposeNames,
                                <<"up", "-d">>, env, diskOk, engineOk),
                 "AddServicesToCompose", TRUE, newComposeNames, <<"up", "-d">>,
                 env, diskOk)

RemoveServicesFromCompose(stack, composeNames, diskOk, failAt) ==
  /\ proc = "running"
  /\ call = NoCall
  /\ LET r == removeServicesFromCompose(Op, opComposeBox, FS, stack,
                                        composeNames, diskOk, failAt)
     IN Returned(r, "RemoveServicesFromCompose", TRUE,
                 <<stack>> \o composeNames, <<"rm", "-fvs">>, {}, diskOk)

(***************************************************************************)
(* package installer: elasticAgentTARPackage                               *)
(***************************************************************************)
TheService == "elastic-agent"

BeatVersion == "8.0.0-SNAPSHOT"

Tokens == {"token1", "token2"}

Archs == {"x86_64", "arm64"}

ExecErr == <<"exec failed">>

AddFilesErr == <<"could not add files">>

FetchErr == <<"could not download">>

\* kibana.NewFleetConfig(token).Flags()
FleetFlags(token) == <<"--force", "--enrollment-token", token>>

\* utils.BuildArtifactName and utils.FetchBeatsBinary: the local path of the binary
BinaryPath(artifact, version, os, arch, extension) ==
  <<"tmp", artifact, version, os, arch, extension>>

\* deploy.Deployment.AddFiles on the service of the installer
AddFiles(log, filePaths, ok) ==
  [log |-> Append(log, [fn |-> "AddFiles", service |-> TheService,
                        args |-> filePaths, ok |-> ok]),
   err |-> IF ok THEN NilErr ELSE AddFilesErr]

\* deploy.Deployment.ExecIn on the service of the installer
Exec(log, args, ok) ==
  [log |-> Append(log, [fn |-> "ExecIn", service |-> TheService,
                        args |-> args, ok |-> ok]),
   err |-> IF ok THEN NilErr ELSE ExecErr]

EnrollArgs(token) == <<"/elastic-agent/elastic-agent", "install">> \o FleetFlags(token)

\* Enroll that drops the error of the exec
enrollQuiet(log, token, execOk) ==
  [log |-> Exec(log, EnrollArgs(token), execOk).log, err |-> NilErr]

enroll(log, token, execOk) ==
  LET e == Exec(log, EnrollArgs(token), execOk) IN
  [log |-> e.log,
   err |-> IF e.err # NilErr
             THEN <<"Failed to install the agent with subcommand", e.err>>
             ELSE NilErr]

\* "mv", "/<artifact>-<version>-<os>-<arch>" (its four parts), "/elastic-agent"
MvArgs(arch) ==
  <<"mv", "elastic-agent", BeatVersion, "linux", arch, "/elastic-agent">>

\* Preinstall that stages the binary and leaves it under its artifact name
preinstallNoMove(log, archIsArm, fetchOk, addOk, mvOk) ==
  LET arch == IF archIsArm THEN "arm64" ELSE "x86_64"
      binaryPath == BinaryPath("elastic-agent", BeatVersion, "linux", arch, "tar.gz")
  IN
  IF ~fetchOk THEN [log |-> log, err |-> FetchErr]
  ELSE AddFiles(log, <<binaryPath>>, addOk)

preinstall(log, archIsArm, fetchOk, addOk, mvOk) ==
  LET arch == IF archIsArm THEN "arm64" ELSE "x86_64"
      binaryPath == BinaryPath("elastic-agent", BeatVersion, "linux", arch, "tar.gz")
  IN
  IF ~fetchOk THEN [log |-> log, err |-> FetchErr]
  ELSE
    LET a == AddFiles(log, <<binaryPath>>, addOk) IN
    IF a.err # NilErr THEN [log |-> a.log, err |-> a.err]
    ELSE [log |-> Exec(a.log, MvArgs(arch), mvOk).log, err |-> NilErr]

install(log) == [log |-> log, err |-> NilErr]

postinstall(log) == [log |-> log, err |-> NilErr]

start(log, execOk) == Exec(log, <<"systemctl", "start", "elastic-agent">>, execOk)

stop(log, execOk) == Exec(log, <<"systemctl", "stop", "elastic-agent">>, execOk)

UninstallArgs == <<"elastic-agent", "uninstall", "-f">>

uninstall(log, execOk) ==
  LET e == Exec(log, UninstallArgs, execOk) IN
  [log |-> e.log,
   err |-> IF e.err # NilErr
             THEN <<"Failed to uninstall the agent with subcommand", e.err>>
             ELSE NilErr]

\* the lifecycle state an operation leads to when it returns no error
Target(opName) ==
  CASE opName = "Preinstall" -> "Preinstalled"
    [] opName = "Install" -> "Installed"
    [] opName = "Enroll" -> "Enrolled"
    [] opName = "Start" -> "Started"
    [] opName = "Stop" -> "Stopped"
    [] opName = "Uninstall" -> "Uninstalled"
    [] OTHER -> lifecycle

\* the state after the installer operation opName that returned r
Operated(opName, arg, r) ==
  /\ Len(opsLog) < MaxOps
  /\ deployLog' = r.log
  /\ opsLog' = Append(opsLog, [op |-> opName, arg |-> arg, err |-> r.err,
                               issued |-> Len(r.log) - Len(deployLog)])
  /\ lifecycle' = IF r.err = NilErr THEN Target(opName) ELSE lifecycle
  /\ UNCHANGED <<composeVars, concVars>>

Preinstall(archIsArm, fetchOk, addOk, mvOk) ==
  Operated("Preinstall", IF archIsArm THEN "arm64" ELSE "x86_64", preinstall(deployLog, archIsArm, fetchOk, addOk, mvOk))

Install == Operated("Install", "", install(deployLog))

Postinstall == Operated("Postinstall", "", postinstall(deployLog))

Enroll(token, execOk) == Operated("Enroll", token, enroll(deployLog, token, execOk))

Start(execOk) == Operated("Start", "", start(deployLog, execOk))

Stop(execOk) == Operated("Stop", "", stop(deployLog, execOk))

Uninstall(execOk) == Operated("Uninstall", "", uninstall(deployLog, execOk))

(***************************************************************************)
(* The tester's own changes to the workspace                               *)
(***************************************************************************)
UserPath(t, n) == HomeDir \o <<".op", "compose", t, n, ComposeFileName>>

UserWriteFile(t, n) ==
  /\ proc = "running"
  /\ call = NoCall
  /\ edits < MaxEdits
  /\ edits' = edits + 1
  /\ LET w == WriteFile(MkdirAll(FS, UserPath(t, n), TRUE), UserPath(t, n),
                        CustomBytes, TRUE)
     IN /\ dirs' = w.fs.dirs
        /\ files' = w.fs.files
  /\ UNCHANGED <<proc, Op, opComposeBox, call, installerVars, concVars>>

UserRemoveFile(t, n) ==
  /\ proc = "running"
  /\ call = NoCall
  /\ edits < MaxEdits
  /\ UserPath(t, n) \in DOMAIN files
  /\ edits' = edits + 1
  /\ files' = [q \in DOMAIN files \ {UserPath(t, n)} |-> files[q]]
  /\ UNCHANGED <<proc, Op, opComposeBox, dirs, call, installerVars, concVars>>

\* the scenario driver takes the result of the call it made; it makes one call
\* at a time
Return ==
  /\ call # NoCall
  /\ call' = NoCall
  /\ UNCHANGED <<proc, Op, opComposeBox, dirs, files, edits, installerVars, concVars>>

Init ==
  /\ proc = "running"
  /\ call = NoCall
  /\ Op = NilOp
  /\ opComposeBox = NilBox
  /\ dirs = Prefixes(HomeDir)
  /\ files = [q \in {} |-> <<>>]
  /\ edits = 0
  /\ call = NoCall
  /\ deployLog = <<>>
  /\ opsLog = <<>>
  /\ lifecycle = "Unstaged"
  /\ ini = [c \in Callers |-> [pc |-> "idle", walked |-> 0]]
  /\ cfg = [c \in Callers |-> NilOp]
  /\ opRef = "nil"
  /\ res = [c \in Callers |-> Idle]

Next ==
  \/ \E userOk \in BOOLEAN, mkdirOk \in BOOLEAN, failAt \in 0..Len(BoxList) :
       InitConfig(userOk, mkdirOk, failAt)
  \/ \E isStack \in BOOLEAN, n \in Names, diskOk \in BOOLEAN :
       GetComposeFileCall(isStack, n, diskOk)
  \/ \E service \in Names : GetServiceConfig(service)
  \/ \E isStack \in BOOLEAN, composeNames \in NamesLists, env \in Envs,
          diskOk \in BOOLEAN, engineOk \in BOOLEAN :
       RunCompose(isStack, composeNames, env, diskOk, engineOk)
  \/ \E isStack \in BOOLEAN, composeNames \in NamesLists,
          diskOk \in BOOLEAN, engineOk \in BOOLEAN :
       StopCompose(isStack, composeNames, diskOk, engineOk)
  \/ \E stack \in Names, composeNames \in ServiceLists, env \in Envs,
          diskOk \in BOOLEAN, engineOk \in BOOLEAN :
       AddServicesToCompose(stack, composeNames, env, diskOk, engineOk)
  \/ \E stack \in Names, composeNames \in ServiceLists,
          diskOk \in BOOLEAN, failAt \in 0..(MaxNames - 1) :
       RemoveServicesFromCompose(stack, composeNames, diskOk, failAt)
  \/ \E t \in Types, n \in Names : UserWriteFile(t, n)
  \/ \E t \in Types, n \in Names : UserRemoveFile(t, n)
  \/ Return

Spec == Init /\ [][Next]_vars

InstallerNext ==
  \/ \E archIsArm \in BOOLEAN, fetchOk \in BOOLEAN, addOk \in BOOLEAN,
          mvOk \in BOOLEAN :
       Preinstall(archIsArm, fetchOk, addOk, mvOk)
  \/ Install
  \/ Postinstall
  \/ \E token \in Tokens, execOk \in BOOLEAN : Enroll(token, execOk)
  \/ \E execOk \in BOOLEAN : Start(execOk)
  \/ \E execOk \in BOOLEAN : Stop(execOk)
  \/ \E execOk \in BOOLEAN : Uninstall(execOk)

InstallerSpec == Init /\ [][InstallerNext]_vars

(***************************************************************************)
(* InitConfig run by several callers of one process, statement by          *)
(* statement.  No lock is taken in InitConfig or newConfig.  The walk of    *)
(* the embedded files and the creation of the directories are taken to     *)
(* succeed here.                                                           *)
(***************************************************************************)
\* the OpConfig the pointer Op refers to
Deref(ref, heap) == IF ref = "nil" THEN NilOp ELSE heap[ref]

\* a step of caller c in InitConfig from pc to the next statement
InitStep(c, from, to) ==
  /\ proc = "running"
  /\ call = NoCall
  /\ ini[c].pc = from
  /\ ini' = [ini EXCEPT ![c].pc = to]

InitFrame == UNCHANGED <<proc, edits, call, installerVars, res>>

\* caller c calls InitConfig
InitEnter(c) ==
  /\ InitStep(c, "idle", "guard1")
  /\ InitFrame
  /\ UNCHANGED <<Op, opComposeBox, dirs, files, cfg, opRef>>

\* InitConfig: if Op != nil { return }
InitGuard1(c) ==
  /\ InitStep(c, "guard1", IF opRef # "nil" THEN "done" ELSE "guard2")
  /\ InitFrame
  /\ UNCHANGED <<Op, opComposeBox, dirs, files, cfg, opRef>>

\* newConfig: if Op != nil { return }
InitGuard2(c) ==
  /\ InitStep(c, "guard2", IF opRef # "nil" THEN "done" ELSE "dirs")
  /\ InitFrame
  /\ UNCHANGED <<Op, opComposeBox, dirs, files, cfg, opRef>>

\* newConfig: checkConfigDirs(workspace)
InitDirs(c) ==
  /\ InitStep(c, "dirs", "assign")
  /\ dirs' = checkConfigDirs(FS, HomeDir \o <<".op">>, TRUE).fs.dirs
  /\ InitFrame
  /\ UNCHANGED <<Op, opComposeBox, files, cfg, opRef>>

\* newConfig: Op = &opConfig, an empty OpConfig of this caller
InitAssign(c) ==
  /\ InitStep(c, "assign", "walk")
  /\ cfg' = [cfg EXCEPT ![c] = [Services |-> EmptyMap, Stacks |-> EmptyMap,
                                Workspace |-> HomeDir \o <<".op">>]]
  /\ opRef' = c
  /\ Op' = Deref(opRef', cfg')
  /\ InitFrame
  /\ UNCHANGED <<opComposeBox, dirs, files>>

\* packComposeFiles: the callback of box.Walk on the next embedded file; it
\* writes into the OpConfig that was passed to packComposeFiles, which is the
\* one Op referred to when the caller read it after its assignment
InitWalk(c) ==
  /\ proc = "running"
  /\ call = NoCall
  /\ ini[c].pc = "walk"
  /\ IF ini[c].walked < Len(BoxList)
       THEN /\ ini' = [ini EXCEPT ![c].walked = @ + 1]
            /\ cfg' = [cfg EXCEPT ![c] =
                         packVisit(@, <<BoxList[ini[c].walked + 1]>>)]
       ELSE /\ ini' = [ini EXCEPT ![c].pc = "services"]
            /\ cfg' = cfg
  /\ Op' = Deref(opRef, cfg')
  /\ InitFrame
  /\ UNCHANGED <<opComposeBox, dirs, files, opRef>>

\* newConfig: readFilesFromFileSystem(serviceType), which writes through Op
InitRead(c, serviceType, from, to) ==
  /\ InitStep(c, from, to)
  /\ cfg' = [cfg EXCEPT ![opRef] = readFilesFromFileSystem(@, FS, serviceType)]
  /\ Op' = Deref(opRef, cfg')
  /\ InitFrame
  /\ UNCHANGED <<opComposeBox, dirs, files, opRef>>

InitReadServices(c) == InitRead(c, "services", "services", "stacks")

InitReadStacks(c) == InitRead(c, "stacks", "stacks", "box")

\* newConfig: opComposeBox = box, and the return
InitSetBox(c) ==
  /\ InitStep(c, "box", "done")
  /\ opComposeBox' = TheBox
  /\ InitFrame
  /\ UNCHANGED <<Op, dirs, files, cfg, opRef>>

ConcInitNext ==
  \/ \E c \in Callers :
       \/ InitEnter(c)
       \/ InitGuard1(c)
       \/ InitGuard2(c)
       \/ InitDirs(c)
       \/ InitAssign(c)
       \/ InitWalk(c)
       \/ InitReadServices(c)
       \/ InitReadStacks(c)
       \/ InitSetBox(c)
  \/ \E t \in Types, n \in Names : UserWriteFile(t, n)

ConcInitSpec == Init /\ [][ConcInitNext]_vars

(***************************************************************************)
(* GetComposeFile run by several callers of one process on an initialised  *)
(* registry, statement by statement.  ioutil.WriteFile opens the file with *)
(* O_CREATE and O_TRUNC and then writes the bytes: two steps.  The         *)
(* workspace accepts the writes here.                                      *)
(***************************************************************************)
\* the state after an InitConfig that succeeded on an empty workspace
Initial == newConfig(NilOp, NilBox,
                     [dirs |-> Prefixes(HomeDir), files |-> [q \in {} |-> <<>>]],
                     HomeDir \o <<".op">>, TRUE, 0)

ConcResolveInit ==
  /\ proc = "running"
  /\ Op = Initial.Op
  /\ opComposeBox = Initial.box
  /\ dirs = Initial.fs.dirs
  /\ files = Initial.fs.files
  /\ edits = 0
  /\ call = NoCall
  /\ deployLog = <<>>
  /\ opsLog = <<>>
  /\ lifecycle = "Unstaged"
  /\ ini = [c \in Callers |-> [pc |-> "idle", walked |-> 0]]
  /\ cfg = [c \in Callers |-> NilOp]
  /\ opRef = "nil"
  /\ res = [c \in Callers |-> Idle]

\* the bytes of a file after a write at offset 0 that appends instead
WriteAt0Append(content, bytes) == content \o bytes

\* the bytes of a file after the write of bytes at offset 0
WriteAt0(content, bytes) ==
  bytes \o SubSeq(content, Len(bytes) + 1, Len(content))

\* composeFilePath of the call of caller c
PathOf(c) == Op.Workspace \o <<"compose", res[c].arg[1], res[c].arg[2], ComposeFileName>>

ResolveFrame ==
  UNCHANGED <<proc, Op, opComposeBox, edits, call, installerVars, ini, cfg, opRef>>

\* caller c calls GetComposeFile(isStack, composeName)
ResolveEnter(c, isStack, composeName) ==
  /\ res[c].pc = "idle"
  /\ res' = [res EXCEPT ![c].pc = "exists",
                        ![c].arg = <<ServiceType(isStack), composeName>>]
  /\ ResolveFrame
  /\ UNCHANGED <<dirs, files>>

\* found, err := io.Exists(composeFilePath), and the return when found
ResolveExists(c) ==
  /\ res[c].pc = "exists"
  /\ res' = IF Exists(FS, PathOf(c))
              THEN [res EXCEPT ![c].pc = "return", ![c].path = PathOf(c)]
              ELSE [res EXCEPT ![c].pc = "find"]
  /\ ResolveFrame
  /\ UNCHANGED <<dirs, files>>

\* composeBytes, err := opComposeBox.Find(...), and the return on its error
ResolveFind(c) ==
  /\ res[c].pc = "find"
  /\ LET f == BoxFind(opComposeBox, <<res[c].arg[1], res[c].arg[2], ComposeFileName>>)
     IN res' = IF f.err # NilErr
                 THEN [res EXCEPT ![c].pc = "return", ![c].err = f.err]
                 ELSE [res EXCEPT ![c].pc = "mkdir", ![c].bytes = f.bytes]
  /\ ResolveFrame
  /\ UNCHANGED <<dirs, files>>

\* io.MkdirAll(composeFilePath)
ResolveMkdir(c) ==
  /\ res[c].pc = "mkdir"
  /\ res' = [res EXCEPT ![c].pc = "open"]
  /\ dirs' = MkdirAll(FS, PathOf(c), TRUE).dirs
  /\ ResolveFrame
  /\ UNCHANGED files

\* ioutil.WriteFile: the file is created, or cut to no bytes
ResolveOpen(c) ==
  /\ res[c].pc = "open"
  /\ res' = [res EXCEPT ![c].pc = "write"]
  /\ files' = [q \in DOMAIN files \cup {PathOf(c)} |->
                 IF q = PathOf(c) THEN <<>> ELSE files[q]]
  /\ ResolveFrame
  /\ UNCHANGED dirs

\* ioutil.WriteFile: the bytes are written from the start of the file
ResolveWrite(c) ==
  /\ res[c].pc = "write"
  /\ res' = [res EXCEPT ![c].pc = "return", ![c].path = PathOf(c),
                        ![c].wrote = TRUE]
  /\ files' = [files EXCEPT ![PathOf(c)] = WriteAt0(@, res[c].bytes)]
  /\ ResolveFrame
  /\ UNCHANGED dirs

\* the call returns; content is what the file at the returned path holds then
ResolveReturn(c) ==
  /\ res[c].pc = "return"
  /\ res' = [res EXCEPT ![c].pc = "done",
                        ![c].content = IF res[c].path \in DOMAIN files
                                         THEN files[res[c].path] ELSE <<>>]
  /\ ResolveFrame
  /\ UNCHANGED <<dirs, files>>

ConcResolveNext ==
  \E c \in Callers :
    \/ \E isStack \in BOOLEAN, n \in Names : ResolveEnter(c, isStack, n)
    \/ ResolveExists(c)
    \/ ResolveFind(c)
    \/ ResolveMkdir(c)
    \/ ResolveOpen(c)
    \/ ResolveWrite(c)
    \/ ResolveReturn(c)

ConcResolveSpec == ConcResolveInit /\ [][ConcResolveNext]_vars

(***************************************************************************)
(* Properties of the compose resolver and the registry                     *)
(***************************************************************************)
\* the registry and the box are both set: InitConfig ran and the walk of the
\* embedded files succeeded (the caller's obligation before any use)
Initialised == Op # NilOp /\ opComposeBox # NilBox

WsPath(t, n) == HomeDir \o <<".op", "compose", t, n, ComposeFileName>>

Boxed(t, n) == <<t, n, ComposeFileName>>

\* the step is the call of GetComposeFile(isStack, n)
IsResolveStep(isStack, n) ==
  /\ call = NoCall
  /\ call'.op = "GetComposeFile"
  /\ call'.isStack = isStack
  /\ call'.names = <<n>>

\* the step is the call of some operation
IsCallStep == call = NoCall /\ call' # NoCall

\* C1: when the name is only in the embedded set, a resolve on a workspace
\* that accepts the write leaves at WORKSPACE/compose/<type>/<name>/
\* docker-compose.yml exactly the embedded bytes and returns that path, after
\* one look-up in the embedded set; a resolve that finds the file already in
\* the workspace (as every resolve after the first does) returns the same
\* path, looks nothing up in the embedded set and writes nothing.
C1_ResolveMaterialisesOnce ==
  [][\A isStack \in BOOLEAN, n \in Names :
       LET t == ServiceType(isStack)
           p == WsPath(t, n)
       IN
       (IsResolveStep(isStack, n) /\ Initialised /\ Boxed(t, n) \in TheBox.paths)
         => IF p \notin DOMAIN files
              THEN call'.diskOk =>
                     /\ p \in DOMAIN files'
                     /\ files'[p] = BoxBytes(Boxed(t, n))
                     /\ call'.path = p
                     /\ call'.err = NilErr
                     /\ call'.found = <<Boxed(t, n)>>
                     /\ call'.wrote = <<p>>
              ELSE /\ call'.path = p
                   /\ call'.err = NilErr
                   /\ call'.found = <<>>
                   /\ call'.wrote = <<>>
                   /\ files' = files
                   /\ dirs' = dirs]_vars

\* a resolve returned the path of a file that holds the embedded bytes without
\* a look-up in the embedded set: the file was written by an earlier resolve
C1_Witness ==
  \E t \in Types, n \in Names :
    /\ call.op = "GetComposeFile"
    /\ call.resolved = <<<<t, n>>>>
    /\ call.path = WsPath(t, n)
    /\ call.found = <<>>
    /\ call.wrote = <<>>
    /\ WsPath(t, n) \in DOMAIN files
    /\ files[WsPath(t, n)] = BoxBytes(Boxed(t, n))

\* C2: a name with a file in the workspace and an entry in the embedded set:
\* no call of any operation changes the bytes of the workspace file, a resolve
\* of the name returns the workspace path, and an engine invocation gets the
\* workspace path where the name was resolved.
C2_WorkspaceWins ==
  [][\A t \in Types, n \in Names :
       LET p == WsPath(t, n) IN
       (IsCallStep /\ p \in DOMAIN files /\ Boxed(t, n) \in TheBox.paths)
         => /\ p \in DOMAIN files'
            /\ files'[p] = files[p]
            /\ (Op # NilOp /\ call'.op = "GetComposeFile"
                  /\ call'.resolved = <<<<t, n>>>>)
                 => (call'.path = p /\ call'.err = NilErr /\ call'.found = <<>>)
            /\ \A k \in DOMAIN call'.invocations :
                 \A i \in DOMAIN call'.invocations[k].files :
                   (call'.op # "RemoveServicesFromCompose"
                      /\ call'.resolved[i] = <<t, n>>)
                     => call'.invocations[k].files[i] = p]_vars

\* a resolve returned the path of a file of the tester's although the name is
\* in the embedded set too
C2_Witness ==
  \E t \in Types, n \in Names :
    /\ call.op = "GetComposeFile"
    /\ call.resolved = <<<<t, n>>>>
    /\ call.path = WsPath(t, n)
    /\ Boxed(t, n) \in TheBox.paths
    /\ WsPath(t, n) \in DOMAIN files
    /\ files[WsPath(t, n)] = CustomBytes

NotFound(t, n) == <<"file does not exist">> \o Boxed(t, n)

\* C3: a resolve of a name that is neither in the workspace nor in the embedded
\* set returns the not-found error of the look-up and no path, and creates no
\* directory and no file.
C3_UnknownNameNotFound ==
  [][\A isStack \in BOOLEAN, n \in Names :
       LET t == ServiceType(isStack) IN
       (IsResolveStep(isStack, n) /\ Initialised
          /\ WsPath(t, n) \notin DOMAIN files
          /\ Boxed(t, n) \notin TheBox.paths)
         => /\ call'.err = NotFound(t, n)
            /\ call'.path = <<>>
            /\ ~call'.panic
            /\ call'.wrote = <<>>
            /\ dirs' = dirs
            /\ files' = files]_vars

\* a resolve of the unknown services/a failed while the workspace accepted writes
C3_Witness ==
  /\ call.op = "GetComposeFile"
  /\ call.resolved = <<<<"services", "a">>>>
  /\ call.diskOk
  /\ call.err # NilErr
  /\ WsPath("services", "a") \notin DOMAIN files
  /\ Dir(WsPath("services", "a")) \notin dirs

\* C4: a call of InitConfig when the registry exists leaves the services map,
\* the stacks map and the workspace root (and the box) as they are, whatever
\* the workspace holds by then.
C4_InitConfigIdempotent ==
  [][(call = NoCall /\ call'.op = "InitConfig" /\ Op # NilOp)
       => (Op' = Op /\ opComposeBox' = opComposeBox /\ proc' = proc)]_vars

\* InitConfig has returned on a populated registry that lacks a file the
\* workspace holds, or holds one the workspace lacks: the call was not the
\* first, and the workspace changed since the first
C4_Witness ==
  /\ call.op = "InitConfig"
  /\ Initialised
  /\ \E n \in Names :
       \/ /\ WsPath("services", n) \in DOMAIN files
          /\ (n \notin DOMAIN Op.Services
                \/ Op.Services[n].Path # WsPath("services", n))
       \/ /\ n \in DOMAIN Op.Services
          /\ Op.Services[n].Path = WsPath("services", n)
          /\ WsPath("services", n) \notin DOMAIN files

(***************************************************************************)
(* Properties of the orchestrator                                          *)
(***************************************************************************)
\* the call failed in the loop that resolves the names
ResolveFailed == call.err # NilErr /\ call.err[1] = "Could not get compose file"

\* the type RunCompose is to resolve the i-th name as
UpType(isStack, i) == IF i = 1 /\ isStack THEN "stacks" ELSE "services"

\* C5: RunCompose on a non-empty list resolves the first name as a stack when
\* isStack is set and every other name as a service, in the order of the list;
\* when all names resolve it invokes the engine once, with "up -d", the
\* workspace paths of the names in the order of the names, the first name as
\* the identifier and the env of the call.
C5_RunComposeLayers ==
  (call.op = "RunCompose" /\ call.names # <<>> /\ ~call.panic)
    => /\ Len(call.resolved) <= Len(call.names)
       /\ \A i \in DOMAIN call.resolved :
            call.resolved[i] = <<UpType(call.isStack, i), call.names[i]>>
       /\ ResolveFailed => call.invocations = <<>>
       /\ ~ResolveFailed =>
            /\ Len(call.resolved) = Len(call.names)
            /\ call.invocations =
                 << [files |-> [i \in 1..Len(call.names) |->
                                  WsPath(UpType(call.isStack, i), call.names[i])],
                     identifier |-> call.names[1],
                     command |-> <<"up", "-d">>,
                     env |-> call.env] >>

\* RunCompose brought up the stack es with the service es on top, with an env
C5_Witness ==
  /\ call.op = "RunCompose"
  /\ call.isStack
  /\ call.names = <<"es", "es">>
  /\ call.env # {}
  /\ call.err = NilErr
  /\ Len(call.invocations) = 1
  /\ call.invocations[1].files = <<WsPath("stacks", "es"), WsPath("services", "es")>>

\* C6: StopCompose with isStack unset on a list of one name of one character
\* resolves the name under stacks, and the engine gets the path under stacks.
C6_StopSingleCharIsStack ==
  (call.op = "StopCompose" /\ ~call.isStack /\ Len(call.names) = 1
     /\ Len(call.names[1]) = 1)
    => /\ call.resolved = <<<<"stacks", call.names[1]>>>>
       /\ \A k \in DOMAIN call.invocations :
            call.invocations[k].files = <<WsPath("stacks", call.names[1])>>

\* StopCompose(false, ["a"]) took the stack a down
C6_Witness ==
  /\ call.op = "StopCompose"
  /\ ~call.isStack
  /\ call.names = <<"a">>
  /\ call.err = NilErr
  /\ Len(call.invocations) = 1
  /\ call.invocations[1].files = <<WsPath("stacks", "a")>>

\* C7: StopCompose with isStack set on a list of two names or more resolves
\* the first name as a stack and every later name as a service, as RunCompose
\* does for the same arguments.
C7_StopResolvesAsRun ==
  (call.op = "StopCompose" /\ call.isStack /\ Len(call.names) >= 2)
    => \A i \in DOMAIN call.resolved :
         call.resolved[i] = <<UpType(call.isStack, i), call.names[i]>>

\* the command RemoveServicesFromCompose is to run for the k-th service
RmCommand(k) == <<"rm", "-fvs", call.names[k + 1]>>

\* C8: RemoveServicesFromCompose makes one call of executeCompose per service,
\* in the order of the list, each with "rm -fvs <service>" on the stack and all
\* the services; the first call that fails is the last one made and its error
\* is the error returned, as it is; the engine is invoked for nothing but
\* these removals, so nothing undoes the removals made before the failure.
C8_RemoveStopsAtFirstError ==
  (call.op = "RemoveServicesFromCompose" /\ ~call.panic)
    => LET n == Len(call.names) - 1 IN
       /\ Len(call.calls) <= n
       /\ \A k \in DOMAIN call.calls :
            /\ call.calls[k].command = RmCommand(k)
            /\ call.calls[k].err # NilErr =>
                 (k = Len(call.calls) /\ call.err = call.calls[k].err)
       /\ (\A k \in DOMAIN call.calls : call.calls[k].err = NilErr)
            => (Len(call.calls) = n /\ call.err = NilErr)
       /\ Len(call.invocations) <= Len(call.calls)
       /\ Len(call.invocations) >= Len(call.calls) - 1
       /\ \A j \in DOMAIN call.invocations :
            /\ call.invocations[j].command = RmCommand(j)
            /\ call.invocations[j].identifier = call.names[1]
            /\ Len(call.invocations[j].files) = Len(call.names)

\* the removal of the first of two services failed in the engine after the
\* stack and both services had resolved
C8_Witness ==
  /\ call.op = "RemoveServicesFromCompose"
  /\ Len(call.names) = 3
  /\ call.names[2] # call.names[3]
  /\ Len(call.invocations) = 1
  /\ call.err # NilErr
  /\ call.err[1] = "Could not run compose file"

(***************************************************************************)
(* Properties of the TAR installer                                         *)
(***************************************************************************)
AllCallsOk == \A k \in DOMAIN deployLog : deployLog[k].ok

\* C9: after Preinstall, Install and Enroll, in this order, with the binary
\* fetched and every call of the deployment successful, the lifecycle is
\* Enrolled, the deployment has got exactly AddFiles of the binary, the exec
\* of the rename and the exec of the enrolment, in this order, and no exec of
\* the uninstall command.
C9_PreinstallInstallEnroll ==
  (/\ Len(opsLog) = 3
   /\ opsLog[1].op = "Preinstall" /\ opsLog[1].err = NilErr
   /\ opsLog[2].op = "Install"
   /\ opsLog[3].op = "Enroll"
   /\ AllCallsOk)
    => /\ lifecycle = "Enrolled"
       /\ \A k \in DOMAIN opsLog : opsLog[k].err = NilErr
       /\ Len(deployLog) = 3
       /\ deployLog[1].fn = "AddFiles"
       /\ deployLog[1].args =
            <<BinaryPath("elastic-agent", BeatVersion, "linux", opsLog[1].arg, "tar.gz")>>
       /\ deployLog[2].fn = "ExecIn"
       /\ deployLog[2].args = MvArgs(opsLog[1].arg)
       /\ deployLog[3].fn = "ExecIn"
       /\ deployLog[3].args = EnrollArgs(opsLog[3].arg)
       /\ \A k \in DOMAIN deployLog :
            deployLog[k].fn = "ExecIn" => deployLog[k].args # UninstallArgs
       /\ \A k \in DOMAIN deployLog : deployLog[k].service = TheService

\* the three operations ran in this order and all calls succeeded
C9_Witness ==
  /\ Len(opsLog) = 3
  /\ opsLog[1].op = "Preinstall" /\ opsLog[1].err = NilErr
  /\ opsLog[2].op = "Install"
  /\ opsLog[3].op = "Enroll"
  /\ AllCallsOk
  /\ lifecycle = "Enrolled"

\* C10: Enroll in any lifecycle state issues exactly one exec, of the
\* enrolment command with the flags of the token, on the service; it returns
\* an error exactly when the exec does, and the error holds the error of the
\* exec.
C10_EnrollSurfacesExec ==
  [][(Len(opsLog') = Len(opsLog) + 1 /\ opsLog'[Len(opsLog')].op = "Enroll")
       => LET e == opsLog'[Len(opsLog')]
              x == deployLog'[Len(deployLog')]
          IN
          /\ Len(deployLog') = Len(deployLog) + 1
          /\ SubSeq(deployLog', 1, Len(deployLog)) = deployLog
          /\ x.fn = "ExecIn"
          /\ x.service = TheService
          /\ x.args = EnrollArgs(e.arg)
          /\ (e.err # NilErr) <=> ~x.ok
          /\ e.err # NilErr => e.err[2] = ExecErr
          /\ e.err = NilErr => lifecycle' = "Enrolled"
          /\ e.err # NilErr => lifecycle' = lifecycle]_vars

\* Enroll ran before Preinstall and Install, and its exec failed
C10_Witness ==
  /\ Len(opsLog) >= 1
  /\ opsLog[1].op = "Enroll"
  /\ opsLog[1].err # NilErr
  /\ Len(deployLog) = 1
  /\ ~deployLog[1].ok
  /\ lifecycle = "Unstaged"

\* C11: Preinstall returns an error whenever the fetch, the AddFiles or the
\* exec of the rename fails, and returns no error only when the binary was
\* staged and the rename succeeded.
C11_PreinstallSurfacesFailure ==
  (opsLog # <<>> /\ opsLog[Len(opsLog)].op = "Preinstall")
    => LET e == opsLog[Len(opsLog)]
           n == Len(deployLog)
       IN
       e.err = NilErr
         <=> /\ e.issued = 2
             /\ deployLog[n - 1].fn = "AddFiles" /\ deployLog[n - 1].ok
             /\ deployLog[n].fn = "ExecIn" /\ deployLog[n].ok

\* C12: when the walk of the embedded files fails in InitConfig, at its start
\* or part-way, InitConfig returns without reading the workspace, the registry
\* has no service and no stack, and the process goes on.
C12_FailedScanLeavesEmptyRegistry ==
  (call.op = "InitConfig" /\ Op # NilOp /\ opComposeBox = NilBox)
    => /\ proc = "running"
       /\ DOMAIN Op.Services = {}
       /\ DOMAIN Op.Stacks = {}

\* the map of the registry r for the type t
RegistryOf(r, t) == IF t = "stacks" THEN r.Stacks ELSE r.Services

\* C14: after an InitConfig whose walk succeeded, a name of a type with a
\* compose file in its workspace directory has the workspace path in the
\* registry, also when the embedded set has the name; a name that only the
\* embedded set has, has the embedded path; other names have no entry; the
\* entry of a service and the entry of a stack of the same name are apart.
C14_RegistryAfterInit ==
  [][(call = NoCall /\ call'.op = "InitConfig" /\ Op = NilOp
        /\ Op' # NilOp /\ opComposeBox' # NilBox)
       => \A t \in Types, n \in Names :
            LET m == RegistryOf(Op', t) IN
            IF WsPath(t, n) \in DOMAIN files'
              THEN n \in DOMAIN m
                     /\ m[n] = [Name |-> n, Path |-> WsPath(t, n)]
            ELSE IF Boxed(t, n) \in TheBox.paths
              THEN n \in DOMAIN m
                     /\ m[n] = [Name |-> n, Path |-> Boxed(t, n)]
            ELSE n \notin DOMAIN m]_vars

\* InitConfig returned with the service es from the workspace, over the
\* embedded one, and the stack es from the embedded set
C14_Witness ==
  /\ call.op = "InitConfig"
  /\ Initialised
  /\ "es" \in DOMAIN Op.Services
  /\ Op.Services["es"].Path = WsPath("services", "es")
  /\ "es" \in DOMAIN Op.Stacks
  /\ Op.Stacks["es"].Path = Boxed("stacks", "es")
  /\ WsPath("services", "es") \in DOMAIN files

\* the operations that use the registry or the box
UseOps ==
  {"GetComposeFile", "GetServiceConfig", "RunCompose", "StopCompose",
   "AddServicesToCompose", "RemoveServicesFromCompose"}

\* C15: a use of the registry before a successful InitConfig (no registry, or
\* the registry of an InitConfig whose walk failed) returns an error to the
\* caller and does not end the process.
C15_UseBeforeInitIsAnError ==
  (call.op \in UseOps /\ ~Initialised)
    => /\ ~call.panic
       /\ proc = "running"
       /\ (call.op # "GetServiceConfig" => call.err # NilErr)
       /\ (call.op = "GetServiceConfig" => ~call.exists)

\* C16 as claimed: StopCompose with isStack unset resolves the first name as a
\* stack exactly when the list has one name and the name has one character;
\* in a list of two names or more every name resolves as a service.
C16_StopRuleAsClaimed ==
  (call.op = "StopCompose" /\ ~call.isStack /\ call.resolved # <<>>)
    => /\ call.resolved[1][1] = "stacks"
            <=> (Len(call.names) = 1 /\ Len(call.names[1]) = 1)
       /\ Len(call.names) >= 2
            => \A i \in DOMAIN call.resolved : call.resolved[i][1] = "services"

\* C16: StopCompose with isStack unset resolves the first name as a stack
\* exactly when the first name has one character, whatever the length of the
\* list; every later name resolves as a service.
C16_StopRuleOfFirstName ==
  (call.op = "StopCompose" /\ ~call.isStack /\ call.resolved # <<>>)
    => /\ call.resolved[1] =
            <<IF Len(call.names[1]) = 1 THEN "stacks" ELSE "services",
              call.names[1]>>
       /\ \A i \in DOMAIN call.resolved :
            i >= 2 => call.resolved[i] = <<"services", call.names[i]>>

\* StopCompose(false, ["a", "es"]) took down the stack a with the service es
C16_Witness ==
  /\ call.op = "StopCompose"
  /\ ~call.isStack
  /\ call.names = <<"a", "es">>
  /\ call.err = NilErr
  /\ Len(call.invocations) = 1
  /\ call.invocations[1].files = <<WsPath("stacks", "a"), WsPath("services", "es")>>

\* C17: an InitConfig after an InitConfig that the walk of the embedded files
\* made fail populates the registry again: with the walk working now, the
\* registry and the box are set when it returns.
C17_InitRetriesAfterFailedScan ==
  [][(/\ call = NoCall
      /\ call'.op = "InitConfig"
      /\ Op # NilOp
      /\ opComposeBox = NilBox
      /\ call'.init = [userOk |-> TRUE, mkdirOk |-> TRUE, failAt |-> 0])
       => (Op' # NilOp /\ opComposeBox' # NilBox)]_vars

\* C18: once the registry is set, no operation but InitConfig is a step that
\* changes the services map, the stacks map, the workspace root or the box:
\* GetComposeFile, also when it extracts a file, GetServiceConfig, RunCompose,
\* StopCompose, AddServicesToCompose and RemoveServicesFromCompose.
C18_RegistryReadOnly ==
  [][(IsCallStep /\ call'.op \in UseOps /\ Op # NilOp)
       => (Op' = Op /\ opComposeBox' = opComposeBox)]_vars

\* GetComposeFile extracted the stack a, and the registry still has the
\* embedded path for it
C18_Witness ==
  /\ call.op = "GetComposeFile"
  /\ call.wrote = <<WsPath("stacks", "a")>>
  /\ WsPath("stacks", "a") \in DOMAIN files
  /\ Initialised
  /\ Op.Stacks["a"].Path = Boxed("stacks", "a")

\* C20: every resolve looks at the workspace: a call that returns a path and
\* no error leaves a file at that path, and the engine is invoked on files
\* that are there; a resolve of a name whose file is not there (never was, or
\* was removed since an earlier resolve) extracts the embedded file again when
\* the embedded set has the name and the write is accepted, and returns the
\* not-found error when it has not.
C20_ResolveVerifiesEachCall ==
  [][IsCallStep =>
       /\ (call'.op = "GetComposeFile" /\ ~call'.panic /\ call'.err = NilErr)
            => call'.path \in DOMAIN files'
       /\ \A k \in DOMAIN call'.invocations :
            \A i \in DOMAIN call'.invocations[k].files :
              call'.invocations[k].files[i] \in DOMAIN files'
       /\ \A isStack \in BOOLEAN, n \in Names :
            LET t == ServiceType(isStack)
                p == WsPath(t, n)
            IN
            (IsResolveStep(isStack, n) /\ Initialised /\ p \notin DOMAIN files)
              => IF Boxed(t, n) \in TheBox.paths
                   THEN call'.diskOk =>
                          (call'.wrote = <<p>> /\ call'.err = NilErr
                             /\ p \in DOMAIN files'
                             /\ files'[p] = BoxBytes(Boxed(t, n)))
                   ELSE call'.err = NotFound(t, n)]_vars

\* a resolve extracted a file again after the tester had removed it: the one
\* change by hand left no file of the tester's, so it was the removal of a
\* file an earlier resolve had extracted, and it was this file, the only one
\* with a directory
C20_Witness ==
  \E t \in Types, n \in Names :
    /\ call.op = "GetComposeFile"
    /\ call.wrote = <<WsPath(t, n)>>
    /\ edits = 1
    /\ DOMAIN files = {WsPath(t, n)}
    /\ files[WsPath(t, n)] = BoxBytes(Boxed(t, n))
    /\ \A u \in Types, m \in Names :
         Dir(WsPath(u, m)) \in dirs => (u = t /\ m = n)

\* the statements of InitConfig that write the registry or the box
Populating == {"walk", "services", "stacks", "box"}

\* the registry after the walk of all embedded files and the two scans of the
\* workspace (the workspace may have got more files since)
FullyPopulated ==
  /\ Op # NilOp
  /\ opComposeBox # NilBox
  /\ \A i \in DOMAIN BoxList :
       BoxList[i][2] \in DOMAIN RegistryOf(Op, BoxList[i][1])

\* C13: of the callers that run InitConfig at the same time one at most runs
\* the population pass, and when the InitConfig of a caller has returned the
\* registry is fully populated and no other caller is writing it.
C13_InitSerialised ==
  /\ Cardinality({c \in Callers : cfg[c] # NilOp}) <= 1
  /\ \A c \in Callers :
       ini[c].pc = "done"
         => /\ FullyPopulated
            /\ \A d \in Callers : ini[d].pc \notin Populating

\* the call of caller c is a call for a name of the embedded set
ResolvesBoxed(c) ==
  /\ res[c].arg # <<>>
  /\ Boxed(res[c].arg[1], res[c].arg[2]) \in TheBox.paths

\* C19 as claimed: when callers resolve at the same time a name that only the
\* embedded set has, each call returns no error and the workspace path, and
\* the file at that path holds the embedded bytes when the call returns.
C19_EachReturnSeesTheBytes ==
  \A c \in Callers :
    (res[c].pc = "done" /\ ResolvesBoxed(c))
      => /\ res[c].err = NilErr
         /\ res[c].path = WsPath(res[c].arg[1], res[c].arg[2])
         /\ res[c].content = BoxBytes(Boxed(res[c].arg[1], res[c].arg[2]))

\* C19: when callers resolve at the same time a name that only the embedded
\* set has, each call returns no error and the workspace path, and the file
\* at that path holds the embedded bytes once all the calls for the name have
\* returned.
C19_LastWriterLeavesTheBytes ==
  /\ \A c \in Callers :
       (res[c].pc = "done" /\ ResolvesBoxed(c))
         => /\ res[c].err = NilErr
            /\ res[c].path = WsPath(res[c].arg[1], res[c].arg[2])
  /\ \A t \in Types, n \in Names :
       (/\ Boxed(t, n) \in TheBox.paths
        /\ \E c \in Callers : res[c].arg = <<t, n>>
        /\ \A c \in Callers : res[c].arg = <<t, n>> => res[c].pc = "done")
         => /\ WsPath(t, n) \in DOMAIN files
            /\ files[WsPath(t, n)] = BoxBytes(Boxed(t, n))

\* both callers extracted the same name, one returned while the file was cut
\* to no bytes by the other, and the file holds the embedded bytes in the end
C19_Witness ==
  /\ \A c \in Callers :
       res[c].pc = "done" /\ res[c].wrote /\ res[c].arg = <<"stacks", "a">>
  /\ \E c \in Callers : res[c].content = <<>>
  /\ files[WsPath("stacks", "a")] = BoxBytes(Boxed("stacks", "a"))

(***************************************************************************)
(* Failed resolution and the composition engine                            *)
(***************************************************************************)
Orchestration ==
  {"RunCompose", "StopCompose", "AddServicesToCompose", "RemoveServicesFromCompose"}

\* the type the operation asks GetComposeFile for, for the i-th name
AskedType(opName, isStack, composeNames, i) ==
  IF opName = "StopCompose"
    THEN ServiceType(StopComposeIsStack(i, isStack, composeNames[i]))
    ELSE ServiceType(executeComposeIsStack(i, isStack))

\* the name is in the workspace, or in the embedded set with a workspace that
\* accepts the write
Resolvable(t, n, diskOk) ==
  \/ WsPath(t, n) \in DOMAIN files
  \/ Boxed(t, n) \in TheBox.paths /\ diskOk

\* the operation resolves the names of its list: RemoveServicesFromCompose
\* does so once per service, and not at all when it is given no service
ResolvesNames(opName, composeNames) ==
  opName = "RemoveServicesFromCompose" => Len(composeNames) >= 2

\* C21: in RunCompose, StopCompose, AddServicesToCompose and
\* RemoveServicesFromCompose on an initialised registry, when the resolution
\* of some name of the list fails the operation returns an error and the
\* engine is not invoked in that call; and a call of RunCompose or
\* StopCompose invokes the engine at most once, whatever the engine answers.
C21_NoEngineWithoutResolution ==
  [][(IsCallStep /\ call'.op \in Orchestration)
       => /\ (/\ Initialised
              /\ ResolvesNames(call'.op, call'.names)
              /\ \E i \in DOMAIN call'.names :
                   ~Resolvable(AskedType(call'.op, call'.isStack, call'.names, i),
                               call'.names[i], call'.diskOk))
               => /\ ~call'.panic
                  /\ call'.err # NilErr
                  /\ call'.err[1] = "Could not get compose file"
                  /\ call'.invocations = <<>>
          /\ call'.op \in {"RunCompose", "StopCompose"}
               => Len(call'.invocations) <= 1]_vars

\* StopCompose of the stack es with the services es and a, on a workspace that
\* accepts writes, failed at the unknown services/a after two names resolved
\* and the engine was not invoked
C21_Witness ==
  /\ call.op = "StopCompose"
  /\ Initialised
  /\ call.diskOk
  /\ call.names = <<"a", "es", "a">>
  /\ ~call.isStack
  /\ Len(call.resolved) = 3
  /\ ResolveFailed
  /\ call.invocations = <<>>

====
